---- MODULE Spec2Model ----
(***************************************************************************)
(* DexBee: a query layer over IndexedDB (src/dexbee.js).                   *)
(*                                                                         *)
(* One DexBee instance over one database with one table.  The table's      *)
(* schema follows one of the two tables of the tutorial: 'act' (simple     *)
(* unique key, a list of index keys) or 'ost' (compound unique key, one    *)
(* index), each cut down to two fields.                                    *)
(* The object store, its indexes, key ranges, getAll, cursors and delete   *)
(* are the IndexedDB primitives the code calls; put, get, delete, _exec,   *)
(* locateIndex and keyFill are translated from the source.                 *)
(*                                                                         *)
(* JS values.  A key value is [arr, v]: arr tells an array from a scalar,  *)
(* v lists the components (one component for a scalar).  Scalars are       *)
(* integers; 0 stands for the falsy valid keys (0, ''), Null for           *)
(* null/undefined, UFFFF for the string '\uffff'.                       *)
(***************************************************************************)
EXTENDS Integers, Sequences, FiniteSets, TLC

\* ---- bounds ------------------------------------------------------------
MaxVal == 1        \* field values are 0..MaxVal
MaxRecords == 2    \* records a put may leave in the table
MaxBatch == 2      \* records in one put call
MaxWhere == 2      \* terms in a `where` list
MaxCount == 2      \* magnitude of a numeric `range`
MaxOptions == 2    \* options a get query sets at once
MaxDatabases == 2  \* databases a schema argument declares
Databases == 1 .. MaxDatabases

\* ---- values ------------------------------------------------------------
Null == 0 - 1
UFFFF == MaxVal + 100
Vals == 0 .. MaxVal

Scalar(x) == [arr |-> FALSE, v |-> <<x>>]
Array(s) == [arr |-> TRUE, v |-> s]
NullValue == Scalar(Null)

\* JS truthiness of a key value: arrays are truthy, null, 0 and '' are not
Truthy(k) == k.arr \/ (k.v[1] # Null /\ k.v[1] # 0)

\* ---- schema (constructor argument) --------------------------------------
Tables == {"act", "ost"}

schema ==
  [act |-> [uniqueKey |-> Scalar("name"),
            index |-> Array(<<"planet", "name">>)],
   ost |-> [uniqueKey |-> Array(<<"artist", "title">>),
            index |-> Scalar("title")]]

Fields(t) ==
  IF t = "act" THEN {"name", "planet"} ELSE {"artist", "title"}

Records(t) == [Fields(t) -> Vals]

\* the object store's key path and the indexes createIndex registers
keyPath(t) == schema[t].uniqueKey

indexes(t) ==
  LET index == schema[t].index IN
  IF index.arr
  THEN {[name |-> t \o "_index", keyPath |-> index]}
       \cup {[name |-> index.v[i], keyPath |-> Scalar(index.v[i])] :
               i \in 1 .. Len(index.v)}
  ELSE {[name |-> index.v[1], keyPath |-> index]}

indexNames(t) == {i.name : i \in indexes(t)}

\* a database handle is the store ("") or one of its indexes (by name)
Store == ""
keyPathOf(t, database) ==
  IF database = Store THEN keyPath(t)
  ELSE (CHOOSE i \in indexes(t) : i.name = database).keyPath

\* ---- IndexedDB keys ------------------------------------------------------
\* the key a key path extracts from a record
KeyOf(kp, r) == [arr |-> kp.arr, v |-> [i \in 1 .. Len(kp.v) |-> r[kp.v[i]]]]

ValidKey(k) == \A i \in 1 .. Len(k.v) : k.v[i] # Null

RECURSIVE SeqLess(_, _)
SeqLess(a, b) ==
  IF b = <<>> THEN FALSE
  ELSE IF a = <<>> THEN TRUE
  ELSE IF Head(a) # Head(b) THEN Head(a) < Head(b)
  ELSE SeqLess(Tail(a), Tail(b))

\* IndexedDB key order: any scalar sorts before any array, arrays compare
\* component by component, a proper prefix first
KeyLess(a, b) ==
  IF a.arr # b.arr THEN b.arr
  ELSE IF a.arr THEN SeqLess(a.v, b.v)
  ELSE a.v[1] < b.v[1]

\* ---- IDBKeyRange ---------------------------------------------------------
\* a query handed to getAll / openCursor / delete: null (everything), a key,
\* or a key range
AllKeys == [hasLo |-> FALSE, lo |-> NullValue, loOpen |-> FALSE,
            hasHi |-> FALSE, hi |-> NullValue, hiOpen |-> FALSE]
only(k) == [hasLo |-> TRUE, lo |-> k, loOpen |-> FALSE,
            hasHi |-> TRUE, hi |-> k, hiOpen |-> FALSE]
bound(lo, hi) == [hasLo |-> TRUE, lo |-> lo, loOpen |-> FALSE,
                  hasHi |-> TRUE, hi |-> hi, hiOpen |-> FALSE]
lowerBound(lo, open) == [hasLo |-> TRUE, lo |-> lo, loOpen |-> open,
                         hasHi |-> FALSE, hi |-> NullValue, hiOpen |-> FALSE]
upperBound(hi, open) == [hasLo |-> FALSE, lo |-> NullValue, loOpen |-> FALSE,
                         hasHi |-> TRUE, hi |-> hi, hiOpen |-> open]

\* IDBKeyRange.bound throws DataError on an invalid key or lower > upper
boundThrows(lo, hi) == ~ValidKey(lo) \/ ~ValidKey(hi) \/ KeyLess(hi, lo)

includes(q, k) ==
  /\ q.hasLo => (KeyLess(q.lo, k) \/ (~q.loOpen /\ q.lo = k))
  /\ q.hasHi => (KeyLess(k, q.hi) \/ (~q.hiOpen /\ q.hi = k))

\* ---- object store and index primitives ----------------------------------
\* position of a record in a database handle: (index key, primary key)
Before(t, database, r1, r2) ==
  LET k1 == KeyOf(keyPathOf(t, database), r1)
      k2 == KeyOf(keyPathOf(t, database), r2)
  IN \/ KeyLess(k1, k2)
     \/ k1 = k2 /\ KeyLess(KeyOf(keyPath(t), r1), KeyOf(keyPath(t), r2))

RECURSIVE Ordered(_, _, _)
Ordered(t, database, S) ==
  IF S = {} THEN <<>>
  ELSE LET m == CHOOSE r \in S : \A o \in S \ {r} : Before(t, database, r, o)
       IN <<m>> \o Ordered(t, database, S \ {m})

Reverse(s) == [i \in 1 .. Len(s) |-> s[Len(s) + 1 - i]]

\* IDBObjectStore.getAll / IDBIndex.getAll
getAll(t, S, database, q) ==
  Ordered(t, database,
          {r \in S : includes(q, KeyOf(keyPathOf(t, database), r))})

\* the records a cursor visits, in order, for each direction
openCursor(t, S, database, q, direction) ==
  LET kp == keyPathOf(t, database)
      all == getAll(t, S, database, q)
      firsts == SelectSeq(all, LAMBDA r :
                  \A o \in S : KeyOf(kp, o) = KeyOf(kp, r)
                                 => ~Before(t, database, o, r))
  IN CASE direction = "next" -> all
       [] direction = "nextunique" -> firsts
       [] direction = "prev" -> Reverse(all)
       [] direction = "prevunique" -> Reverse(firsts)

\* IDBObjectStore.put: the record replaces the one stored under its key
storePut(t, S, r) ==
  {o \in S : KeyOf(keyPath(t), o) # KeyOf(keyPath(t), r)} \cup {r}

\* IDBObjectStore.delete
storeDelete(t, S, q) == {r \in S : ~includes(q, KeyOf(keyPath(t), r))}

\* ---- query objects -------------------------------------------------------
\* a term of `where` or `range`: a scalar, an ordered list, or a single-key
\* mapping {name: val}; NoTerm is null/undefined
NoTerm == [t |-> "none", name |-> "", val |-> NullValue]
ScalarTerm(x) == [t |-> "scalar", name |-> "", val |-> Scalar(x)]
ListTerm(s) == [t |-> "list", name |-> "", val |-> Array(s)]
MapTerm(n, x) == [t |-> "map", name |-> n, val |-> Scalar(x)]

\* the term a plain value is (the value of a mapping, once taken out)
asTerm(k) ==
  IF k.arr THEN [t |-> "list", name |-> "", val |-> k]
  ELSE IF k = NullValue THEN NoTerm
  ELSE [t |-> "scalar", name |-> "", val |-> k]

TruthyTerm(k) == k.t \in {"map", "list"} \/ (k.t = "scalar" /\ Truthy(k.val))

\* `range ? ...`: a count other than 0, or a truthy terminal term
TruthyRange(range) ==
  \/ range.kind = "count" /\ range.n # 0
  \/ range.kind = "term" /\ TruthyTerm(range.term)

\* descending when the flag is true or a count is negative, the flag
\* `false` overriding nothing
_descendingOr(query) ==
  \/ query.descending = "true"
  \/ query.range.kind = "count" /\ query.range.n < 0

\* let _descending = typeof descending === 'boolean' ? descending
\*                     : (typeof range === 'number' ? (range < 0) : false)
_descending(query) ==
  IF query.descending # "absent" THEN query.descending = "true"
  ELSE IF query.range.kind = "count" THEN query.range.n < 0
  ELSE FALSE

\* where = Array.isArray(where) ? where : where ? [where] : null
\* (isNull tells null from a list)
coerceWhere(where) ==
  IF where.kind = "list" THEN [isNull |-> FALSE, terms |-> where.terms]
  ELSE IF where.kind = "term" /\ TruthyTerm(where.terms[1])
       THEN [isNull |-> FALSE, terms |-> where.terms]
  ELSE [isNull |-> TRUE, terms |-> <<>>]

\* let mode = range ? 'RANGE' : where ? 'KEYS' : null
mode(query) ==
  IF TruthyRange(query.range) THEN "RANGE"
  ELSE IF ~coerceWhere(query.where).isNull THEN "KEYS"
  ELSE "ALL"

\* ---- locateIndex and keyFill ---------------------------------------------
\* let rangeIter = (key path length of the database) - (length of k)
rangeIter(kp, kv) ==
  (IF kp.arr THEN Len(kp.v) ELSE 1) - (IF kv.arr THEN Len(kv.v) ELSE 1)

\* the padding loop of keyFill: {where: k, upperBound} with '\uffff' pushed
\* n times on a copy of k (or on [k], ['\uffff'], [null]); k itself if n <= 0
fill(kv, desc, n) ==
  IF n > 0
  THEN [err |-> "", padded |-> TRUE, where |-> kv,
        upperBound |->
          Array((IF kv.arr THEN kv.v
                 ELSE IF Truthy(kv) THEN <<kv.v[1]>>
                 ELSE IF desc THEN <<UFFFF>>
                 ELSE <<Null>>) \o [i \in 1 .. n |-> UFFFF])]
  ELSE [err |-> "", padded |-> FALSE, where |-> kv, upperBound |-> kv]

\* keyFill(k, isRange) for the database handle locateIndex chose.  The
\* result is an error tag, or the key with padded = TRUE when it is the
\* object {where, upperBound} and FALSE when it is k itself.  The error
\* text after the tag (the JSON of `where`) is left out.
keyFill(t, database, desc, k, isRange) ==
  IF k.t = "list" /\ \E i \in 1 .. Len(k.val.v) : k.val.v[i] \in {Null, 0}
  THEN [err |-> IF isRange THEN "INVALID_RANGE_VALUE"
                ELSE "INVALID_WHERE_VALUE",
        padded |-> FALSE, where |-> k.val, upperBound |-> k.val]
  ELSE fill(k.val, desc, rangeIter(keyPathOf(t, database), k.val))

Located(database, q) == [err |-> "", database |-> database, query |-> q]
Thrown(e) == [err |-> e, database |-> Store, query |-> AllKeys]

\* a mapping term read as a primary-key lookup (the index is not taken)
locateDatabaseInStore(t, whereTerm) ==
  IF whereTerm.t = "list"
  THEN IF (t \o "_index") \in indexNames(t) THEN t \o "_index" ELSE Store
  ELSE Store

\* the database handle locateIndex takes for a term: the index of all index
\* keys (else the store) for a list, the named index for a mapping, the
\* store for a scalar
locateDatabase(t, whereTerm) ==
  LET index == IF (t \o "_index") \in indexNames(t) THEN t \o "_index"
               ELSE Store
  IN IF whereTerm.t = "list" THEN index
     ELSE IF whereTerm.t = "map" THEN whereTerm.name
     ELSE Store

\* `if (typeof range === 'number')`: the open bound of a count scan
countQuery(desc, descending, bnd) ==
  IF Truthy(bnd) \/ desc
  THEN IF desc
       THEN upperBound(IF Truthy(bnd) THEN bnd ELSE Scalar(UFFFF), TRUE)
       ELSE lowerBound(bnd, TRUE)
  ELSE IF descending THEN only(Scalar(UFFFF)) ELSE AllKeys

\* window.IDBKeyRange.bound(where, hi) on a database handle
boundQuery(database, where, hi) ==
  IF boundThrows(where, hi) THEN Thrown("DataError")
  ELSE Located(database, bound(where, hi))

\* locateIndex after `let keyRange = keyFill(where)`, rangeKey being
\* keyFill(range, true)
locateQuery(t, database, query, whereTerm, range, keyRange, rangeKey) ==
  IF whereTerm.t = "map" /\ whereTerm.name \notin indexNames(t)
  THEN Thrown("NO_INDEX")
  ELSE IF keyRange.err # "" THEN Thrown(keyRange.err)
  ELSE IF TruthyRange(range)
  THEN IF range.kind = "count"
       THEN Located(database,
              countQuery(_descending(query), query.descending = "true",
                         IF _descending(query) /\ keyRange.padded
                         THEN keyRange.upperBound ELSE whereTerm.val))
       ELSE IF rangeKey.err # "" THEN Thrown(rangeKey.err)
       ELSE boundQuery(database, whereTerm.val,
                       IF rangeKey.padded THEN rangeKey.upperBound
                       ELSE rangeKey.where)
  ELSE IF keyRange.padded /\ Truthy(keyRange.where)
  THEN Located(database, bound(whereTerm.val, keyRange.upperBound))
  ELSE Located(database, IF whereTerm.val = NullValue THEN AllKeys
                         ELSE only(whereTerm.val))

\* locateIndex(where, range): the database handle and the query of one term
locateIndex(t, query, whereTerm, range) ==
  locateQuery(t, locateDatabase(t, whereTerm), query, whereTerm, range,
              keyFill(t, locateDatabase(t, whereTerm), _descending(query),
                      asTerm(whereTerm.val), FALSE),
              keyFill(t, locateDatabase(t, whereTerm), _descending(query),
                      range.term, TRUE))

\* ---- values a promise settles with ----------------------------------------
\* an element of a result list: a record, record[only], or undefined
Undefined == [undefined |-> TRUE]
project(r, field) ==
  IF field \in DOMAIN r THEN [value |-> r[field]] ELSE Undefined

UndefinedVal == [kind |-> "undefined", items |-> <<>>, err |-> ""]
TrueVal == [kind |-> "true", items |-> <<>>, err |-> ""]
ListVal(s) == [kind |-> "list", items |-> s, err |-> ""]
ErrorVal(e) == [kind |-> "error", items |-> <<>>, err |-> e]

Pending == [st |-> "pending", val |-> UndefinedVal]
Resolved(v) == [st |-> "resolved", val |-> v]
Rejected(e) == [st |-> "rejected", val |-> ErrorVal(e)]

\* ---- state ---------------------------------------------------------------
VARIABLES
  table,    \* the table of the schema the calls address
  store,    \* the records of the table's object store
  call,     \* the call in progress: exec, query, data
  pc,       \* "idle", "active" (transaction open), "complete"
  reqs,     \* the requests of the transaction, each with its term's promise
  outer,    \* the promise the call returned
  lastPut,  \* history: per key, the record the latest put wrote and no
            \* delete request has removed since
  schemaArg, \* the schema argument of the constructor
  instance, \* "none" before the constructor ran, "made", or what it threw
  ready,    \* the promise this.ready
  open,     \* per declared database, how far its open request has come
  db,       \* the database names with a connection stored in this.db
  op        \* a call waiting on this.ready or holding its transaction

\* the state of the calls on an opened database
txn == <<table, store, call, pc, reqs, outer, lastPut>>
\* the state of construction and of the readiness gate
gate == <<schemaArg, instance, ready, open, db, op>>
vars == <<table, store, call, pc, reqs, outer, lastPut,
          schemaArg, instance, ready, open, db, op>>

NoRange == [kind |-> "absent", n |-> 0, term |-> NoTerm]
NoQuery == [where |-> [kind |-> "absent", terms |-> <<>>], range |-> NoRange,
            unique |-> FALSE, only |-> "", descending |-> "absent"]

\* a table declaration of a schema argument: whether it gives uniqueKey
\* and index (each database of the argument declares one table)
TableSettings == [uniqueKey : BOOLEAN, index : BOOLEAN]

\* the schema argument: absent (undefined / null), or an object declaring
\* the databases 1 .. n, n = 0 being the empty object
NoSchema == [given |-> FALSE, dbs |-> <<>>]
Schemas ==
  {NoSchema}
  \cup {[given |-> TRUE, dbs |-> s] :
          s \in UNION {[1 .. n -> TableSettings] : n \in 0 .. MaxDatabases}}

\* no call has been made on the instance
NoOp == [exec |-> "none", dbname |-> 0, data |-> <<>>, stage |-> "none",
         stored |-> 0, promise |-> Pending]

\* the state after new DexBee(schema) on the schema of the tables, its
\* database opened: this.ready is resolved
Init ==
  /\ table \in Tables
  /\ store = {}
  /\ call = [exec |-> "none", query |-> NoQuery, data |-> <<>>]
  /\ pc = "idle"
  /\ reqs = <<>>
  /\ outer = Pending
  /\ lastPut = [k \in {} |-> Undefined]
  /\ schemaArg = [given |-> TRUE,
                  dbs |-> <<[uniqueKey |-> TRUE, index |-> TRUE]>>]
  /\ instance = "made"
  /\ ready = Resolved(TrueVal)
  /\ open = <<"open">>
  /\ db = {1}
  /\ op = NoOp

\* ---- put -------------------------------------------------------------------
RECURSIVE putEachAdd(_, _, _)
\* put.add(d) in place of put.put(d): a stored key is left as it is
putEachAdd(t, S, data) ==
  IF data = <<>> THEN S
  ELSE putEachAdd(t,
         IF \E o \in S : KeyOf(keyPath(t), o) = KeyOf(keyPath(t), Head(data))
         THEN S ELSE S \cup {Head(data)},
         Tail(data))

RECURSIVE putEach(_, _, _)
\* for (let d of data) put.put(d)
putEach(t, S, data) ==
  IF data = <<>> THEN S
  ELSE putEach(t, storePut(t, S, Head(data)), Tail(data))

\* put(dbname, table, data): the write transaction with its put requests
\* (a single record is a batch of one)
put(data) ==
  /\ pc = "idle"
  /\ Cardinality(putEach(table, store, data)) <= MaxRecords
  /\ store' = putEach(table, store, data)
  /\ call' = [exec |-> "put", query |-> NoQuery, data |-> data]
  /\ pc' = "active"
  /\ reqs' = <<>>
  /\ outer' = Pending
  /\ lastPut' =
       LET key(r) == KeyOf(keyPath(table), r)
           written == {key(data[i]) : i \in 1 .. Len(data)}
           latest(k) == CHOOSE i \in 1 .. Len(data) :
                          /\ key(data[i]) = k
                          /\ \A j \in i + 1 .. Len(data) : key(data[j]) # k
       IN [k \in DOMAIN lastPut \cup written |->
             IF k \in written THEN data[latest(k)] ELSE lastPut[k]]
  /\ UNCHANGED table
  /\ UNCHANGED gate

\* ---- _exec ------------------------------------------------------------------
NoReq == [kind |-> "none", database |-> Store, query |-> AllKeys,
          state |-> "done", remaining |-> <<>>, count |-> 0,
          data_push |-> <<>>, promise |-> Pending]

\* a term whose promise executor threw: no request, the promise rejected
Failed(e) == [NoReq EXCEPT !.promise = Rejected(e)]

Request(kind, loc) ==
  [NoReq EXCEPT !.kind = kind, !.database = loc.database,
                !.query = loc.query, !.state = "pending"]

\* Promise.all(list): rejected with the first rejection, resolved with the
\* list of the values once every promise of the list is resolved
all(list) ==
  IF \E i \in 1 .. Len(list) : list[i].promise.st = "rejected"
  THEN (list[CHOOSE i \in 1 .. Len(list) :
               /\ list[i].promise.st = "rejected"
               /\ \A j \in 1 .. i - 1 : list[j].promise.st # "rejected"]).promise
  ELSE IF \A i \in 1 .. Len(list) : list[i].promise.st = "resolved"
  THEN Resolved(ListVal([i \in 1 .. Len(list) |-> list[i].promise.val]))
  ELSE [st |-> "all", val |-> UndefinedVal]

\* case 'KEYS': the request placed on what locateIndex returned
keysRequest(exec, query, loc) ==
  IF loc.err # "" THEN Failed(loc.err)
  ELSE IF exec = "get"
  THEN IF query.unique
       THEN [Request("cursor", loc) EXCEPT
               !.remaining = openCursor(table, store, loc.database,
                                        loc.query, "nextunique")]
       ELSE Request("getAll", loc)
  ELSE IF loc.database # Store
  THEN Failed("TypeError")   \* an IDBIndex has no delete method
  ELSE Request("delete", loc)

\* case 'KEYS': the promise and the request of one term k
keysTerm(exec, query, k) ==
  keysRequest(exec, query, locateIndex(table, query, k, NoRange))

\* case 'KEYS': list, one promise per term of `where`
keysList(exec, query, terms) ==
  [i \in 1 .. Len(terms) |-> keysTerm(exec, query, terms[i])]

\* where = where[0], whatever the direction
rangeTermFirst(desc, where) ==
  IF where.isNull \/ where.terms = <<>> THEN NoTerm
  ELSE where.terms[1]

\* where = _descending ? where[where.length - 1] : where[0]
rangeTerm(desc, where) ==
  IF where.isNull \/ where.terms = <<>> THEN NoTerm
  ELSE IF desc THEN where.terms[Len(where.terms)]
  ELSE where.terms[1]

\* case 'RANGE': the request placed on what locateIndex returned
rangeScan(exec, query, index) ==
  IF index.err # "" THEN <<>>
  ELSE IF query.range.kind = "count" \/ query.unique
  THEN << [Request("cursor", index) EXCEPT
             !.remaining =
               openCursor(table, store, index.database, index.query,
                          (IF _descending(query) THEN "prev" ELSE "next")
                          \o (IF query.unique THEN "unique" ELSE "")),
             !.count = IF query.range.kind # "count" THEN 0 - 1
                       ELSE IF query.range.n < 0 THEN 0 - query.range.n
                       ELSE query.range.n] >>
  ELSE IF exec = "get" THEN << Request("getAll", index) >>
  ELSE IF index.database # Store THEN <<>>
  ELSE << Request("delete", index) >>

\* case 'RANGE': the one request of the call; <<>> when the executor threw
rangeRequest(exec, query) ==
  rangeScan(exec, query,
            locateIndex(table, query,
                        rangeTerm(_descending(query),
                                  coerceWhere(query.where)),
                        query.range))

\* _exec(dbname, table, query, exec) up to the end of the promise executor:
\* the transaction is open and the requests of the mode are placed
_exec(exec, query) ==
  /\ pc = "idle"
  /\ call' = [exec |-> exec, query |-> query, data |-> <<>>]
  /\ pc' = "active"
  /\ CASE mode(query) = "KEYS" ->
            /\ reqs' = keysList(exec, query, coerceWhere(query.where).terms)
            /\ outer' = all(reqs')
       [] mode(query) = "RANGE" ->
            reqs' = rangeRequest(exec, query) /\ outer' = Pending
       [] OTHER ->
            reqs' = << Request("getAll", Located(Store, AllKeys)) >>
            /\ outer' = Pending
  /\ UNCHANGED <<table, store, lastPut>>
  /\ UNCHANGED gate

\* ---- request handlers ------------------------------------------------------
\* res(v) of the promise _exec returned: the first settlement wins
res(v) == IF outer.st = "pending" THEN Resolved(v) ELSE outer

\* list.push(v) in the callback of term i: the value goes to the first
\* place of the list not taken yet, the order of delivery
resTermPush(i, v) ==
  LET j == CHOOSE j \in 1 .. Len(reqs) :
             /\ reqs[j].promise.st = "pending"
             /\ \A h \in 1 .. j - 1 : reqs[h].promise.st # "pending"
      list == [[reqs EXCEPT ![i].state = "done"]
                 EXCEPT ![j].promise = Resolved(v)]
  IN /\ reqs' = list
     /\ outer' = IF outer.st = "all" THEN all(list) ELSE outer

\* res(v) of the promise of term i, and Promise.all following it
resTerm(i, v) ==
  LET list == [reqs EXCEPT ![i].state = "done", ![i].promise = Resolved(v)]
  IN /\ reqs' = list
     /\ outer' = IF outer.st = "all" THEN all(list) ELSE outer

\* the history forgets the keys a delete request removed
forget(S) ==
  [k \in {k \in DOMAIN lastPut : \E r \in S : KeyOf(keyPath(table), r) = k}
     |-> lastPut[k]]

\* the fallback taken whenever no record has the field
shapeFallback(data, field) ==
  IF field # "" /\ \E j \in 1 .. Len(data) : field \in DOMAIN data[j]
  THEN [j \in 1 .. Len(data) |-> project(data[j], field)]
  ELSE data

\* onlyData.length ? onlyData : data
shape(data, field) ==
  LET onlyData == IF field # ""
                  THEN [j \in 1 .. Len(data) |-> project(data[j], field)]
                  ELSE <<>>
  IN IF Len(onlyData) # 0 THEN onlyData ELSE data

Handling(m, i, kind) ==
  /\ pc = "active"
  /\ call.exec \in {"get", "delete"}
  /\ mode(call.query) = m
  /\ i \in 1 .. Len(reqs)
  /\ reqs[i].kind = kind
  /\ reqs[i].state = "pending"

\* case 'KEYS', unique: get.onsuccess of the cursor of term i
KeysCursorSuccess(i) ==
  /\ Handling("KEYS", i, "cursor")
  /\ LET r == reqs[i] IN
     IF r.remaining # <<>>
     THEN LET value == IF call.query.only # ""
                       THEN project(Head(r.remaining), call.query.only)
                       ELSE Head(r.remaining)
          IN /\ reqs' = [reqs EXCEPT
                           ![i].data_push = Append(r.data_push, value),
                           ![i].remaining = Tail(r.remaining)]
             /\ outer' = outer
     ELSE resTerm(i, ListVal(IF call.query.descending = "true"
                             THEN Reverse(r.data_push) ELSE r.data_push))
  /\ UNCHANGED <<table, store, call, pc, lastPut>>
  /\ UNCHANGED gate

\* get.onsuccess without `if (descending) data.reverse()`
KeysGetAllSuccessNoReverse(i) ==
  /\ Handling("KEYS", i, "getAll")
  /\ resTerm(i, ListVal(shape(getAll(table, store, reqs[i].database,
                                     reqs[i].query), call.query.only)))
  /\ UNCHANGED <<table, store, call, pc, lastPut>>
  /\ UNCHANGED gate

\* case 'KEYS': get.onsuccess of the getAll of term i
KeysGetAllSuccess(i) ==
  /\ Handling("KEYS", i, "getAll")
  /\ LET got == getAll(table, store, reqs[i].database, reqs[i].query)
         data == IF call.query.descending = "true" THEN Reverse(got) ELSE got
     IN resTerm(i, ListVal(shape(data, call.query.only)))
  /\ UNCHANGED <<table, store, call, pc, lastPut>>
  /\ UNCHANGED gate

\* case 'KEYS', delete: the delete request of term i is carried out; the
\* code sets no onsuccess, so the promise of the term stays as it is
KeysDeleteSuccess(i) ==
  /\ Handling("KEYS", i, "delete")
  /\ store' = storeDelete(table, store, reqs[i].query)
  /\ lastPut' = forget(store')
  /\ reqs' = [reqs EXCEPT ![i].state = "done"]
  /\ UNCHANGED <<table, call, pc, outer>>
  /\ UNCHANGED gate

\* case 'RANGE', count or unique: r.onsuccess of the cursor
RangeCursorSuccess ==
  /\ Handling("RANGE", 1, "cursor")
  /\ LET r == reqs[1] IN
     IF r.remaining # <<>> /\ r.count # 0
     THEN /\ reqs' = [reqs EXCEPT
                ![1].data_push =
                  IF call.exec = "get"
                  THEN Append(r.data_push,
                              IF call.query.only # ""
                              THEN project(Head(r.remaining), call.query.only)
                              ELSE Head(r.remaining))
                  ELSE r.data_push,
                ![1].count = IF r.count > 0 THEN r.count - 1 ELSE r.count,
                ![1].remaining = Tail(r.remaining)]
          /\ store' = IF call.exec = "delete"
                      THEN store \ {Head(r.remaining)} ELSE store
          /\ lastPut' = forget(store')
          /\ outer' = outer
     ELSE /\ reqs' = [reqs EXCEPT ![1].state = "done"]
          /\ outer' = res(IF call.exec = "get" THEN ListVal(r.data_push)
                          ELSE TrueVal)
          /\ UNCHANGED <<store, lastPut>>
  /\ UNCHANGED <<table, call, pc>>
  /\ UNCHANGED gate

\* case 'RANGE', terminal key: r.onsuccess of getAll or delete.  A delete
\* request has no result: with `only` the handler throws iterating it
RangeSuccess ==
  /\ \/ Handling("RANGE", 1, "getAll")
     \/ Handling("RANGE", 1, "delete")
  /\ reqs' = [reqs EXCEPT ![1].state = "done"]
  /\ IF call.exec = "get"
     THEN LET got == getAll(table, store, reqs[1].database, reqs[1].query)
              data == IF _descending(call.query) THEN Reverse(got) ELSE got
          IN /\ outer' = res(ListVal(shape(data, call.query.only)))
             /\ UNCHANGED <<store, lastPut>>
     ELSE /\ store' = storeDelete(table, store, reqs[1].query)
          /\ lastPut' = forget(store')
          /\ outer' = IF call.query.only # "" THEN outer
                      ELSE res(UndefinedVal)
  /\ UNCHANGED <<table, call, pc>>
  /\ UNCHANGED gate

\* default: a.onsuccess of fetch.getAll(), for get and for delete alike
AllSuccess ==
  /\ Handling("ALL", 1, "getAll")
  /\ LET got == getAll(table, store, Store, AllKeys)
         data == IF _descending(call.query) THEN Reverse(got) ELSE got
     IN outer' = res(ListVal(data))
  /\ reqs' = [reqs EXCEPT ![1].state = "done"]
  /\ UNCHANGED <<table, store, call, pc, lastPut>>
  /\ UNCHANGED gate

\* tx.oncomplete: every request is done and the transaction commits;
\* put resolves with true, _exec with e.target.result (undefined)
oncomplete ==
  /\ pc = "active"
  /\ \A i \in 1 .. Len(reqs) : reqs[i].state = "done"
  /\ pc' = "complete"
  /\ outer' = res(IF call.exec = "put" THEN TrueVal ELSE UndefinedVal)
  /\ UNCHANGED <<table, store, call, reqs, lastPut>>
  /\ UNCHANGED gate

\* ---- the value a get call ends with -----------------------------------------
\* what the handlers of one get leave in the returned promise once the
\* transaction has completed, as a function of the query and the store
resultOf(query) ==
  LET where == coerceWhere(query.where)
      field == query.only
      pick(r) == IF field # "" THEN project(r, field) ELSE r
      ofTerm(k) ==
        LET loc == locateIndex(table, query, k, NoRange)
            got == getAll(table, store, loc.database, loc.query)
            seen == openCursor(table, store, loc.database, loc.query,
                               "nextunique")
            data_push == [j \in 1 .. Len(seen) |-> pick(seen[j])]
        IN IF loc.err # "" THEN Failed(loc.err)
           ELSE IF query.unique
           THEN [NoReq EXCEPT !.promise = Resolved(ListVal(
                   IF query.descending = "true" THEN Reverse(data_push)
                   ELSE data_push))]
           ELSE [NoReq EXCEPT !.promise = Resolved(ListVal(shape(
                   IF query.descending = "true" THEN Reverse(got) ELSE got,
                   field)))]
      r == rangeRequest("get", query)
      n == IF r[1].count < 0 \/ r[1].count > Len(r[1].remaining)
           THEN Len(r[1].remaining) ELSE r[1].count
      ranged == getAll(table, store, r[1].database, r[1].query)
      every == getAll(table, store, Store, AllKeys)
  IN CASE mode(query) = "KEYS" ->
            all([i \in 1 .. Len(where.terms) |-> ofTerm(where.terms[i])])
       [] mode(query) = "RANGE" ->
            IF r = <<>> THEN Resolved(UndefinedVal)
            ELSE IF r[1].kind = "cursor"
            THEN Resolved(ListVal([j \in 1 .. n |-> pick(r[1].remaining[j])]))
            ELSE Resolved(ListVal(shape(
                   IF _descending(query) THEN Reverse(ranged) ELSE ranged,
                   field)))
       [] OTHER ->
            Resolved(ListVal(IF _descending(query) THEN Reverse(every)
                             ELSE every))

\* the caller is done with the call whose transaction has completed
Done ==
  /\ pc = "complete"
  /\ pc' = "idle"
  /\ call' = [exec |-> "none", query |-> NoQuery, data |-> <<>>]
  /\ reqs' = <<>>
  /\ outer' = Pending
  /\ UNCHANGED <<table, store, lastPut>>
  /\ UNCHANGED gate

\* ---- the calls a caller makes ----------------------------------------------
\* an index name registered for the table and a field name that is not
MapNames(t) == IF t = "act" THEN {"planet", "country"}
               ELSE {"title", "duration"}

Lists(S, n) == UNION {[1 .. m -> S] : m \in 1 .. n}

ScalarTerms == {ScalarTerm(x) : x \in Vals}
ListTerms == {ListTerm(s) : s \in Lists(Vals \cup {Null}, 2)}
MapTerms(t) == {MapTerm(n, x) : n \in MapNames(t), x \in Vals}
Terms(t) == ScalarTerms \cup ListTerms \cup MapTerms(t)

\* one term of each shape, for the lists of several terms and for `range`
ShortTerms(t) ==
  {ScalarTerm(0), ScalarTerm(1), ListTerm(<<1>>), ListTerm(<<Null>>)}
  \cup {MapTerm(n, 1) : n \in MapNames(t)}

\* `where`: absent, a bare scalar or mapping, or a list of terms
Wheres(t) ==
  {[kind |-> "absent", terms |-> <<>>]}
  \cup {[kind |-> "term", terms |-> <<k>>] : k \in ScalarTerms \cup MapTerms(t)}
  \cup {[kind |-> "list", terms |-> l] :
          l \in {<<>>} \cup {<<k>> : k \in Terms(t)}
                \cup (Lists(ShortTerms(t), MaxWhere) \ Lists(ShortTerms(t), 1))}

\* `range`: absent, a signed count, or a terminal term
Ranges(t) ==
  {NoRange}
  \cup {[kind |-> "count", n |-> n, term |-> NoTerm] :
          n \in (0 - MaxCount) .. MaxCount}
  \cup {[kind |-> "term", n |-> 0, term |-> k] : k \in ShortTerms(t)}

\* `only`: absent, a field of the records, or a field no record has
Onlys(t) == {"", keyPath(t).v[1], "nonexistentField"}

\* how many of several terms, range, unique, only, descending a query uses
options(q) ==
  (IF Len(q.where.terms) > 1 THEN 1 ELSE 0)
  + (IF q.range # NoRange THEN 1 ELSE 0)
  + (IF q.unique THEN 1 ELSE 0)
  + (IF q.only # "" THEN 1 ELSE 0)
  + (IF q.descending # "absent" THEN 1 ELSE 0)

Queries ==
  [t \in Tables |->
     {q \in [where : Wheres(t), range : Ranges(t), unique : BOOLEAN,
             only : Onlys(t), descending : {"absent", "true", "false"}] :
        options(q) <= MaxOptions}]

\* delete documents `where` and `range` alone
DeleteQueries ==
  [t \in Tables |->
     {[NoQuery EXCEPT !.where = w, !.range = r] :
        w \in Wheres(t), r \in Ranges(t)}]

Batches == [t \in Tables |-> Lists(Records(t), MaxBatch)]

get(query) == _exec("get", query)
delete(query) == _exec("delete", query)

Next ==
  \/ pc = "idle" /\ \E data \in Batches[table] : put(data)
  \/ pc = "idle" /\ \E query \in Queries[table] : get(query)
  \/ pc = "idle" /\ \E query \in DeleteQueries[table] : delete(query)
  \/ \E i \in 1 .. MaxWhere : KeysCursorSuccess(i)
  \/ \E i \in 1 .. MaxWhere : KeysGetAllSuccess(i)
  \/ \E i \in 1 .. MaxWhere : KeysDeleteSuccess(i)
  \/ RangeCursorSuccess
  \/ RangeSuccess
  \/ AllSuccess
  \/ oncomplete
  \/ Done

Spec == Init /\ [][Next]_vars

\* ---- construction and the readiness gate -------------------------------------
\* before new DexBee(schema): any schema argument, nothing opened
InitOpen ==
  /\ schemaArg \in Schemas
  /\ instance = "none"
  /\ ready = Pending
  /\ open = <<>>
  /\ db = {}
  /\ op = NoOp
  /\ table = "act"
  /\ store = {}
  /\ call = [exec |-> "none", query |-> NoQuery, data |-> <<>>]
  /\ pc = "idle"
  /\ reqs = <<>>
  /\ outer = Pending
  /\ lastPut = [k \in {} |-> Undefined]

\* constructor(schema): `if (!schema) throw 'NO_SCHEMA'`, else this.db = {}
\* and this.ready, whose executor opens every database of the schema
constructor ==
  /\ instance = "none"
  /\ IF ~schemaArg.given
     THEN instance' = "NO_SCHEMA" /\ UNCHANGED open
     ELSE /\ instance' = "made"
          /\ open' = [d \in DOMAIN schemaArg.dbs |-> "opening"]
  /\ UNCHANGED <<schemaArg, ready, db, op>>
  /\ UNCHANGED txn

\* res / rej of this.ready: the first settlement wins
settle(v) == IF ready.st = "pending" THEN v ELSE ready

\* the first rej of the chk loop over {table, keyPath, index}, if any
chk(setting) ==
  IF ~setting.uniqueKey THEN Rejected("MISSING_SCHEMA: keyPath")
  ELSE IF ~setting.index THEN Rejected("MISSING_SCHEMA: index")
  ELSE ready

\* eventListener[dbname].upgradeneeded: the connection is stored, the
\* table is checked and created
upgradeneeded(dbname) ==
  /\ instance = "made"
  /\ dbname \in DOMAIN open
  /\ open[dbname] = "opening"
  /\ open' = [open EXCEPT ![dbname] = "upgrading"]
  /\ db' = db \cup {dbname}
  /\ ready' = settle(chk(schemaArg.dbs[dbname]))
  /\ UNCHANGED <<schemaArg, instance, op>>
  /\ UNCHANGED txn

\* transaction.oncomplete of the upgrade: res(true)
upgradeOncomplete(dbname) ==
  /\ instance = "made"
  /\ dbname \in DOMAIN open
  /\ open[dbname] = "upgrading"
  /\ open' = [open EXCEPT ![dbname] = "upgraded"]
  /\ ready' = settle(Resolved(TrueVal))
  /\ UNCHANGED <<schemaArg, instance, db, op>>
  /\ UNCHANGED txn

\* eventListener[dbname].success: the connection is stored, res(true)
success(dbname) ==
  /\ instance = "made"
  /\ dbname \in DOMAIN open
  /\ open[dbname] \in {"opening", "upgraded"}
  /\ open' = [open EXCEPT ![dbname] = "open"]
  /\ db' = db \cup {dbname}
  /\ ready' = settle(Resolved(TrueVal))
  /\ UNCHANGED <<schemaArg, instance, op>>
  /\ UNCHANGED txn

\* eventListener[dbname].error: rej(e); the open request failed, or its
\* upgrade was aborted
error(dbname) ==
  /\ instance = "made"
  /\ dbname \in DOMAIN open
  /\ open[dbname] \in {"opening", "upgrading"}
  /\ open' = [open EXCEPT ![dbname] = "failed"]
  /\ ready' = settle(Rejected("OpenError"))
  /\ UNCHANGED <<schemaArg, instance, db, op>>
  /\ UNCHANGED txn

\* a batch of put as the store sees it: per record, whether the store
\* takes it (FALSE: put.put(d) throws, e.g. no primary key in d)
PutData == UNION {[1 .. n -> BOOLEAN] : n \in 1 .. MaxBatch}

\* the put requests placed before put.put(d) throws
placed(data) ==
  IF \A i \in 1 .. Len(data) : data[i] THEN Len(data)
  ELSE (CHOOSE i \in 1 .. Len(data) :
          ~data[i] /\ \A j \in 1 .. i - 1 : data[j]) - 1

\* put / get / delete is called: put's executor awaits this.ready in _set,
\* _exec awaits it before making its promise
begin(exec, dbname, data) ==
  /\ instance = "made"
  /\ op = NoOp
  /\ dbname \in DOMAIN open
  /\ op' = [NoOp EXCEPT !.exec = exec, !.dbname = dbname, !.data = data,
                        !.stage = "ready"]
  /\ UNCHANGED <<schemaArg, instance, ready, open, db>>
  /\ UNCHANGED txn

\* `await this.ready` is over and _set opens the transaction.  A rejected
\* gate rejects _exec, but only ends put's executor (no rej); so does
\* this.db[dbname].transaction throwing, for want of a stored connection
\* (TypeError) or of one that is open (InvalidStateError), in both.
_set ==
  /\ op.stage = "ready"
  /\ ready.st # "pending"
  /\ op' =
       IF ready.st = "rejected"
       THEN [op EXCEPT !.stage = "dead",
                       !.promise = IF op.exec = "put" THEN Pending ELSE ready]
       ELSE IF op.dbname \notin db
                 \/ open[op.dbname] \notin {"upgraded", "open"}
       THEN [op EXCEPT !.stage = "dead"]
       ELSE [op EXCEPT !.stage = "tx", !.stored = placed(op.data)]
  /\ UNCHANGED <<schemaArg, instance, ready, open, db>>
  /\ UNCHANGED txn

\* tx.oncomplete of put: res(true)
putOncomplete ==
  /\ op.exec = "put"
  /\ op.stage = "tx"
  /\ op' = [op EXCEPT !.stage = "complete", !.promise = Resolved(TrueVal)]
  /\ UNCHANGED <<schemaArg, instance, ready, open, db>>
  /\ UNCHANGED txn

\* tx.onerror of _set: console.error, and the transaction aborts
onerror ==
  /\ op.exec = "put"
  /\ op.stage = "tx"
  /\ op' = [op EXCEPT !.stage = "aborted", !.stored = 0]
  /\ UNCHANGED <<schemaArg, instance, ready, open, db>>
  /\ UNCHANGED txn

NextOpen ==
  \/ constructor
  \/ \E dbname \in Databases : upgradeneeded(dbname)
  \/ \E dbname \in Databases : upgradeOncomplete(dbname)
  \/ \E dbname \in Databases : success(dbname)
  \/ \E dbname \in Databases : error(dbname)
  \/ \E dbname \in Databases, data \in PutData : begin("put", dbname, data)
  \/ \E dbname \in Databases, exec \in {"get", "delete"} :
       begin(exec, dbname, <<>>)
  \/ _set
  \/ putOncomplete
  \/ onerror

SpecOpen == InitOpen /\ [][NextOpen]_vars

\* ---- properties --------------------------------------------------------------
TypeOK ==
  /\ table \in Tables
  /\ store \subseteq Records(table)
  /\ pc \in {"idle", "active", "complete"}
  /\ call.exec \in {"none", "put", "get", "delete"}
  /\ outer.st \in {"pending", "all", "resolved", "rejected"}
  /\ Len(reqs) <= MaxWhere

\* the handlers of a get leave what resultOf computes
HandlersAgree ==
  (pc = "complete" /\ call.exec = "get") => outer = resultOf(call.query)

Key(r) == KeyOf(keyPath(table), r)
Ascending(S) == Ordered(table, Store, S)
GetResolved == call.exec = "get" /\ outer.st = "resolved"

\* C1: for every get whose query has `where` (a scalar, 0 included, a list
\* or a mapping; with or without range, only, descending, unique) the value
\* get resolves with is a list with exactly one entry per term of `where`.
C1_ShapeInvariance ==
  (GetResolved /\ call.query.where.kind # "absent")
    => /\ outer.val.kind = "list"
       /\ Len(outer.val.items) = Len(call.query.where.terms)

\* the elements of a per-term list the scan of term i delivers
Matched(i) ==
  {r \in store :
     includes(reqs[i].query, KeyOf(keyPathOf(table, reqs[i].database), r))}

Undefineds(n) == [j \in 1 .. n |-> Undefined]

\* C2 as stated: a get whose `only` names a field no matched record has
\* returns, for each term, the raw records the term matched.
C2_FallbackToRecords ==
  (GetResolved /\ mode(call.query) = "KEYS" /\ ~call.query.unique
     /\ call.query.only = "nonexistentField")
    => \A i \in 1 .. Len(reqs) :
         /\ Len(outer.val.items[i].items) = Cardinality(Matched(i))
         /\ \A j \in 1 .. Len(outer.val.items[i].items) :
              outer.val.items[i].items[j] \in Matched(i)

\* C2 amended: a get whose `only` names a field no matched record has
\* returns, for each term (and for a terminal-key range scan), a list
\* holding undefined once per matched record; it is the raw list only
\* when no record matched.
C2_UndefinedPerRecord ==
  (GetResolved /\ ~call.query.unique
     /\ call.query.only = "nonexistentField")
    => /\ mode(call.query) = "KEYS" =>
            \A i \in 1 .. Len(reqs) :
              outer.val.items[i].items = Undefineds(Cardinality(Matched(i)))
       /\ (mode(call.query) = "RANGE" /\ outer.val.kind = "list"
             /\ call.query.range.kind = "term") =>
            outer.val.items = Undefineds(Cardinality(Matched(1)))

C2_Witness ==
  /\ GetResolved /\ ~call.query.unique
  /\ call.query.only = "nonexistentField"
  /\ mode(call.query) = "KEYS"
  /\ \E i \in 1 .. Len(reqs) : Cardinality(Matched(i)) = 2

Abs(n) == IF n < 0 THEN 0 - n ELSE n
Take(s, n) == SubSeq(s, 1, IF n < Len(s) THEN n ELSE Len(s))

\* C3: on a table with a simple primary key, get with where: k (the key of
\* a stored record) and range: n > 0 returns the first min(n, available)
\* records in ascending key order beginning with the record k itself; with
\* range: -n or descending: true the records from k backward.
C3_RangeIncludesStart ==
  LET q == call.query
      k == q.where.terms[1].val.v[1]
      back == q.descending = "true" \/ q.range.n < 0
      from == {r \in store : IF back THEN r.name <= k ELSE r.name >= k}
      inOrder == IF back THEN Reverse(Ascending(from)) ELSE Ascending(from)
  IN (/\ table = "act" /\ call.exec = "get" /\ pc = "complete"
      /\ Len(q.where.terms) = 1 /\ q.where.terms[1].t = "scalar"
      /\ q.range.kind = "count" /\ q.range.n # 0
      /\ ~q.unique /\ q.only = ""
      /\ (q.descending = "absent" \/ (q.descending = "true" /\ q.range.n > 0)
            \/ (q.descending = "false" /\ q.range.n > 0))
      /\ \E r \in store : r.name = k)
     => outer = Resolved(ListVal(Take(inOrder, Abs(q.range.n))))

\* C4: a delete in lookup mode (where, no range) whose delete requests all
\* succeed resolves, with a list of one outcome per term of `where`: once
\* its transaction has completed the returned promise is resolved so.
C4_KeysDeleteSettles ==
  (/\ pc = "complete" /\ call.exec = "delete"
   /\ mode(call.query) = "KEYS"
   /\ \A i \in 1 .. Len(reqs) : reqs[i].kind = "delete")
    => /\ outer.st = "resolved"
       /\ outer.val.kind = "list"
       /\ Len(outer.val.items) = Len(coerceWhere(call.query.where).terms)

\* C5: once a delete called with no query (neither where nor range) has
\* resolved, the table holds no record.
C5_DeleteAllEmpties ==
  (/\ call.exec = "delete" /\ outer.st = "resolved"
   /\ call.query.where.kind = "absent" /\ call.query.range.kind = "absent")
    => store = {}

\* C6: get with `only: f` and neither where nor range, on records that all
\* have f, returns the f values of all records in primary-key order
\* (reversed when descending is true), not the records.
C6_OnlyInEnumerateAll ==
  LET q == call.query
      inOrder == IF q.descending = "true" THEN Reverse(Ascending(store))
                 ELSE Ascending(store)
  IN (/\ GetResolved
      /\ q.where.kind = "absent" /\ q.range.kind = "absent"
      /\ q.only \in Fields(table))
     => outer.val = ListVal([j \in 1 .. Len(inOrder) |->
                               [value |-> inOrder[j][q.only]]])

\* a settled promise with each of its lists reversed
reversed(p, nested) ==
  IF p.st = "resolved" /\ p.val.kind = "list"
  THEN IF nested
       THEN Resolved(ListVal([i \in 1 .. Len(p.val.items) |->
                                ListVal(Reverse(p.val.items[i].items))]))
       ELSE Resolved(ListVal(Reverse(p.val.items)))
  ELSE p

\* the outcome of the same query without `descending`
Ascend(q) == resultOf([q EXCEPT !.descending = "absent"])

WhereTerms == coerceWhere(call.query.where).terms

\* the list of term i holds each stored record whose field `name` is v
\* once, and nothing else
ExactlyMatching(i) ==
  LET k == WhereTerms[i]
      found == outer.val.items[i].items
      wanted == {r \in store : r[k.name] = k.val.v[1]}
  IN /\ Len(found) = Cardinality(wanted)
     /\ \A r \in wanted : \E j \in 1 .. Len(found) : found[j] = r

\* C8 as stated: a get in lookup mode whose where list holds a mapping
\* {name: v} rejects with NO_INDEX when name is not a registered index;
\* otherwise the list of that term holds exactly the stored records whose
\* value at name is v.
C8_IndexDisambiguation ==
  (call.exec = "get" /\ pc = "complete" /\ mode(call.query) = "KEYS")
    => \A i \in 1 .. Len(WhereTerms) :
         WhereTerms[i].t = "map" =>
           IF WhereTerms[i].name \notin indexNames(table)
           THEN outer = Rejected("NO_INDEX")
           ELSE outer.st = "resolved" => ExactlyMatching(i)

\* C8 amended: such a get rejects when name is not a registered index,
\* with NO_INDEX unless an earlier list term of `where` failed first with
\* INVALID_WHERE_VALUE; otherwise, when the call resolves and neither
\* unique nor only is set, the list of that term holds exactly the stored
\* records whose value at name is v.
C8_IndexDisambiguationFirstError ==
  (call.exec = "get" /\ pc = "complete" /\ mode(call.query) = "KEYS")
    => \A i \in 1 .. Len(WhereTerms) :
         WhereTerms[i].t = "map" =>
           IF WhereTerms[i].name \notin indexNames(table)
           THEN \/ outer = Rejected("NO_INDEX")
                \/ /\ outer = Rejected("INVALID_WHERE_VALUE")
                   /\ \E j \in 1 .. i - 1 : WhereTerms[j].t = "list"
           ELSE (outer.st = "resolved" /\ ~call.query.unique
                   /\ call.query.only = "") => ExactlyMatching(i)

C8_Witness ==
  /\ GetResolved /\ pc = "complete" /\ mode(call.query) = "KEYS"
  /\ ~call.query.unique /\ call.query.only = ""
  /\ \E i \in 1 .. Len(WhereTerms) :
       /\ WhereTerms[i].t = "map"
       /\ Len(outer.val.items[i].items) = 1
       /\ \E r \in store : r # outer.val.items[i].items[1]

\* C9: on a table with compound primary key [a, b] and no index over
\* several keys, a lookup term [x] returns exactly the records whose first
\* key component is x, in key order, and a term [x, y] exactly the record
\* with key [x, y] (one or none).
C9_CompoundPrefixMatch ==
  LET q == call.query
      x == q.where.terms[1].val.v
      wanted == {r \in store :
                   /\ r.artist = x[1]
                   /\ Len(x) = 2 => r.title = x[2]}
  IN (/\ table = "ost" /\ call.exec = "get" /\ pc = "complete"
      /\ q.where.kind = "list" /\ Len(q.where.terms) = 1
      /\ q.where.terms[1].t = "list"
      /\ \A j \in 1 .. Len(x) : x[j] \in Vals
      /\ q.range.kind = "absent" /\ ~q.unique /\ q.only = ""
      /\ q.descending = "absent")
     => outer = Resolved(ListVal(<<ListVal(Ascending(wanted))>>))

\* C10: at every moment the table holds at most one record per primary
\* key, and each stored record is the one the latest put wrote under its
\* key; after a put, for each key of its batch the table holds exactly the
\* last record of the batch with that key.
C10_WriteOverwrite ==
  /\ \A r1, r2 \in store : Key(r1) = Key(r2) => r1 = r2
  /\ \A r \in store : Key(r) \in DOMAIN lastPut /\ lastPut[Key(r)] = r
  /\ call.exec = "put" =>
       \A i \in 1 .. Len(call.data) :
         (\A j \in i + 1 .. Len(call.data) :
            Key(call.data[j]) # Key(call.data[i]))
           => call.data[i] \in store

C10_Witness ==
  /\ call.exec = "put" /\ outer = Resolved(TrueVal)
  /\ Len(call.data) = 2
  /\ Key(call.data[1]) = Key(call.data[2])
  /\ call.data[1] # call.data[2]
  /\ store = {call.data[2]}

\* a delete whose transaction has completed, in enumerate-all mode or in
\* range mode with its request placed (no error on the way)
DeleteDone ==
  /\ call.exec = "delete" /\ pc = "complete"
  /\ mode(call.query) \in {"ALL", "RANGE"}
  /\ reqs # <<>>

\* C11: every delete in enumerate-all mode (no where, no range) or in range
\* mode (range a count or a terminal key) that completes without a storage
\* error resolves with the value true.
C11_DeleteResolvesTrue ==
  DeleteDone => outer = Resolved(TrueVal)

\* the error locateIndex throws for a term that cannot be located: a
\* mapping on a name that is no index, a list with a null component
ShapeError(k) ==
  IF k.t = "map" /\ k.name \notin indexNames(table) THEN "NO_INDEX"
  ELSE IF k.t = "list" /\ \E j \in 1 .. Len(k.val.v) : k.val.v[j] = Null
  THEN "INVALID_WHERE_VALUE"
  ELSE ""

\* C15: a get or delete with `range` present whose `where` is a mapping on
\* an unregistered index, or a list with a null component, ends with the
\* returned promise rejected with NO_INDEX, respectively
\* INVALID_WHERE_VALUE; it neither resolves nor stays pending.
C15_RangeErrorsReject ==
  (/\ call.exec \in {"get", "delete"} /\ pc = "complete"
   /\ mode(call.query) = "RANGE"
   /\ Len(call.query.where.terms) = 1
   /\ ShapeError(call.query.where.terms[1]) # "")
    => outer = Rejected(ShapeError(call.query.where.terms[1]))

\* the query with its `where` list cut down to its i-th term
OnTerm(q, i) == [q EXCEPT !.where.terms = <<q.where.terms[i]>>]

\* a completed get in range mode on a `where` list of several terms
RangeOnSeveral ==
  /\ call.exec = "get" /\ pc = "complete"
  /\ mode(call.query) = "RANGE"
  /\ call.query.where.kind = "list"
  /\ Len(call.query.where.terms) >= 2

\* C17 as stated: with `range` present and a `where` list of several terms
\* the scan is the scan of the first term of `where`, ascending and
\* descending alike.
C17_RangeFromFirstTerm ==
  RangeOnSeveral => outer = resultOf(OnTerm(call.query, 1))

\* C17 amended: with `range` present and a `where` list of several terms
\* the scan is the scan of the first term of `where` for an ascending
\* query and of the last term for a descending one.
C17_RangeFromFirstOrLastTerm ==
  RangeOnSeveral =>
    outer = resultOf(OnTerm(call.query,
                            IF call.query.descending = "true"
                                 \/ (call.query.descending = "absent"
                                       /\ call.query.range.kind = "count"
                                       /\ call.query.range.n < 0)
                            THEN Len(call.query.where.terms) ELSE 1))

C17_Witness ==
  /\ RangeOnSeveral /\ outer.st = "resolved"
  /\ call.query.range.kind = "count" /\ call.query.range.n < 0
  /\ outer.val.kind = "list" /\ outer.val.items # <<>>
  /\ resultOf(OnTerm(call.query, 1)) # outer

\* a completed get with a count `range` that scanned the object store and
\* returned two records
CountedTwo ==
  /\ call.exec = "get" /\ pc = "complete"
  /\ call.query.range.kind = "count" /\ call.query.range.n # 0
  /\ ~call.query.unique /\ call.query.only = ""
  /\ reqs # <<>> /\ reqs[1].database = Store
  /\ outer.st = "resolved" /\ outer.val.kind = "list"
  /\ Len(outer.val.items) = 2

Backward == KeyLess(Key(outer.val.items[2]), Key(outer.val.items[1]))

\* C18 as stated: with a signed count the cursor runs in descending
\* direction if and only if range < 0 or descending is true; range: -n
\* with descending: false scans backward.
C18_CountDirection ==
  CountedTwo =>
    (Backward <=> (call.query.range.n < 0
                     \/ call.query.descending = "true"))

\* C18 amended: with a signed count the cursor runs in descending
\* direction if and only if descending is true, or descending is not given
\* and range < 0; range: -n with descending: false scans forward.
C18_CountDirectionFlagFirst ==
  CountedTwo =>
    (Backward <=> (\/ call.query.descending = "true"
                   \/ /\ call.query.descending = "absent"
                      /\ call.query.range.n < 0))

C18_Witness ==
  /\ CountedTwo
  /\ call.query.range.n < 0 /\ call.query.descending = "false"
  /\ ~Backward

\* C19: a call whose `range` is a mapping {name: v} on a name that is no
\* registered index of the table fails with NO_INDEX and scans nothing
\* (the `where` of the call being a term that is located without error).
C19_RangeMappingNeedsIndex ==
  (/\ call.exec \in {"get", "delete"} /\ pc # "idle"
   /\ call.query.range.kind = "term"
   /\ call.query.range.term.t = "map"
   /\ call.query.range.term.name \notin indexNames(table)
   /\ Len(call.query.where.terms) = 1
   /\ locateIndex(table, call.query, call.query.where.terms[1],
                  NoRange).err = "")
    => /\ reqs = <<>>
       /\ pc = "complete" => outer = Rejected("NO_INDEX")

\* C20: the promise get or delete returned is resolved only by or after the
\* completion event of the transaction of the call, never while the
\* transaction is active.
C20_SingleResolutionPoint ==
  (call.exec \in {"get", "delete"} /\ outer.st = "resolved")
    => pc = "complete"

\* C12: with a schema declaring two or more databases, this.ready is not
\* resolved before every declared database has fired its open success
\* (its upgrade, if any, finished); so no call opens a transaction on a
\* database whose connection is not stored or is upgrading.
C12_GateCoversEveryDatabase ==
  (instance = "made" /\ Len(schemaArg.dbs) >= 2 /\ ready.st = "resolved")
    => \A dbname \in DOMAIN open : open[dbname] = "open"

\* C13: the constructor fails with NO_SCHEMA when the schema argument is
\* absent or is empty (no database entry); no instance with a pending
\* readiness gate comes of such an argument.
C13_NoSchemaRejected ==
  (instance # "none" /\ (~schemaArg.given \/ schemaArg.dbs = <<>>))
    => instance = "NO_SCHEMA"

MissingSchema ==
  {"MISSING_SCHEMA: uniqueKey", "MISSING_SCHEMA: keyPath",
   "MISSING_SCHEMA: index"}

\* C14: this.ready is rejected with a MISSING_SCHEMA error only for a table
\* that declares no uniqueKey, and the message then names uniqueKey; a
\* table that declares no index does not reject it.
C14_IndexOptional ==
  (ready.st = "rejected" /\ ready.val.err \in MissingSchema)
    => /\ \E dbname \in DOMAIN schemaArg.dbs :
            ~schemaArg.dbs[dbname].uniqueKey
       /\ ready.val.err = "MISSING_SCHEMA: uniqueKey"

\* C16: the promise put returned is rejected with the error when the
\* readiness gate rejected, when the store refused a record of the batch
\* or when the write transaction failed; it is resolved with true only
\* when every record of the batch has been stored.
C16_PutReportsFailure ==
  op.exec = "put" =>
    /\ (op.stage = "dead" /\ ready.st = "rejected") => op.promise = ready
    /\ op.stage = "aborted" => op.promise.st = "rejected"
    /\ (op.stage = "complete" /\ op.stored < Len(op.data))
         => op.promise.st = "rejected"
    /\ op.promise = Resolved(TrueVal) => op.stored = Len(op.data)

\* what a get with the i-th term of `where` alone (same options) ends with
AloneOnTerm(i) == resultOf(OnTerm(call.query, i))

\* C21: in a lookup-mode get the requests of all terms are placed on the
\* one transaction of the call, and in whatever order the store delivers
\* their success callbacks, the promise of term i resolves with the result
\* of term i and the i-th list of the value the call resolves with is the
\* result of the i-th term of `where`; a record two terms match is in both
\* lists.
C21_FanOutOrder ==
  (call.exec = "get" /\ mode(call.query) = "KEYS")
    => /\ Len(reqs) = Len(WhereTerms)
       /\ \A i \in 1 .. Len(reqs) :
            reqs[i].promise.st = "resolved" =>
              AloneOnTerm(i) = Resolved(ListVal(<<reqs[i].promise.val>>))
       /\ outer.st = "resolved" =>
            /\ Len(outer.val.items) = Len(WhereTerms)
            /\ \A i \in 1 .. Len(WhereTerms) :
                 AloneOnTerm(i) = Resolved(ListVal(<<outer.val.items[i]>>))

\* the callback of the second term was delivered before the callback of
\* the first, the two terms give different lists, and a stored record
\* that is in the list of the second term is matched by the first too
C21_Witness ==
  /\ call.exec = "get" /\ pc = "active" /\ mode(call.query) = "KEYS"
  /\ Len(reqs) = 2
  /\ reqs[1].state = "pending" /\ reqs[1].promise.st = "pending"
  /\ reqs[2].promise.st = "resolved"
  /\ AloneOnTerm(1) # AloneOnTerm(2)
  /\ \E r \in Matched(1) :
       \E j \in 1 .. Len(reqs[2].promise.val.items) :
         reqs[2].promise.val.items[j] = r

\* a list term holds a null (undefined, empty string) component
NullComponent(k) ==
  k.t = "list" /\ \E j \in 1 .. Len(k.val.v) : k.val.v[j] = Null

\* C22: a lookup-mode get whose list term holds a null, undefined or
\* empty-string component rejects, the promise of that term with
\* INVALID_WHERE_VALUE (a get whose list `range` term holds one rejects
\* with INVALID_RANGE_VALUE); a list term all of whose components are key
\* values, the number 0 included, is accepted: its request is placed on
\* the transaction and scanned.
C22_InvalidKeyComponent ==
  /\ (call.exec = "get" /\ mode(call.query) = "KEYS")
       => \A i \in 1 .. Len(WhereTerms) :
            WhereTerms[i].t = "list" =>
              IF NullComponent(WhereTerms[i])
              THEN /\ outer.st = "rejected"
                   /\ reqs[i].promise = Rejected("INVALID_WHERE_VALUE")
              ELSE /\ reqs[i].kind \in {"getAll", "cursor"}
                   /\ reqs[i].promise.st # "rejected"
  /\ (/\ call.exec = "get" /\ pc = "complete"
      /\ mode(call.query) = "RANGE"
      /\ call.query.range.kind = "term"
      /\ NullComponent(call.query.range.term)
      /\ Len(call.query.where.terms) = 1
      /\ call.query.where.terms[1].t = "scalar")
       => outer = Rejected("INVALID_RANGE_VALUE")

====
